---- MODULE Spec2Model ----
(***************************************************************************)
(* Model of the page scripts of pberg-engineers: the month photo gallery   *)
(* (prev/next wraparound navigation, initial position) in its two source   *)
(* variants, and the hero background's timed two-phase auto-advance.       *)
(*                                                                         *)
(*   variant "script"  : src/script.js, third DOMContentLoaded handler     *)
(*                       (every month of the range is an item, file null   *)
(*                       when no photo; start at last item with a photo)   *)
(*   variant "part"    : src/unnamed/part_000 (only months with a photo    *)
(*                       are items; start at last item; hero timer)        *)
(*                                                                         *)
(* Strings are sequences of pieces, so that concatenation and whitespace   *)
(* removal are computed.  A JavaScript number is a record [nan, v].        *)
(***************************************************************************)
EXTENDS Integers, Sequences, FiniteSets, TLC

\* ------------------------------------------------------------------ bounds
\* longest date range (in months) the data source is drawn from
MaxSpan == 3
\* number of setInterval firings explored
MaxCycles == 2

\* -------------------------------------------------------- program constants
IntervalMs == 8000
FadeMs == 1500
BaseYear == 2024
LastMonthOfYear == 11

monthNames ==
  << "January", "February", "March", "April", "May", "June", "July",
     "August", "September", "October", "November", "December" >>

heroPhotos ==
  << "photos/September2024.jpeg", "photos/October2024.jpeg",
     "photos/November2024.jpeg", "photos/January2025.jpeg",
     "photos/February2025.jpeg", "photos/March2025.jpeg",
     "photos/April2025.jpeg", "photos/September2025.jpeg",
     "photos/October2025.jpeg", "photos/November2025.jpeg",
     "photos/December2025.jpeg" >>

\* start months the date range is drawn from: the shipped one (September)
\* and December, whose ranges cross the year boundary
StartMonths == {8, LastMonthOfYear}

VARIABLES
  variant,         \* which source file runs: "script" or "part"
  startYear, startMonth, endYear, endMonth,   \* the gallery's date range
  photosAvailable, \* the set of keys of the availability table
  loaded,          \* the DOMContentLoaded handler has run
  months,          \* the gallery's item sequence
  currentIndex,    \* the gallery's position (a JavaScript number)
  galleryMonth,    \* monthEl.textContent
  galleryImage,    \* containerEl.innerHTML: the file shown, or NoPhoto
  thrown,          \* the uncaught exception of the last handler run
  heroIndex,       \* the hero background's position
  heroClass,       \* heroBg's fade class
  now,             \* the time of the last timer event, in ms
  intervalDue,     \* when the setInterval callback fires next (NoTimer: none)
  timeouts,        \* due times of the pending setTimeout callbacks
  beginLog,        \* fade-out events: [t, idx]
  commitLog,       \* fade-in events: [t, idx]
  lastOp, prevOp,  \* the last two gallery operations
  from1, from2,    \* currentIndex before the last / the last two operations
  lastArg,         \* the argument of the last showMonth call
  fwdRun, runStart \* consecutive next clicks, and the index they began at

dataVars == << variant, startYear, startMonth, endYear, endMonth, photosAvailable >>
galleryVars == << months, currentIndex, galleryMonth, galleryImage, thrown >>
heroVars == << heroIndex, heroClass >>
timerVars == << now, intervalDue, timeouts >>
logVars == << beginLog, commitLog >>
histVars == << lastOp, prevOp, from1, from2, lastArg, fwdRun, runStart >>
vars == << dataVars, loaded, galleryVars, heroVars, timerVars, logVars, histVars >>

\* ----------------------------------------------------- JavaScript numbers
NaN == [nan |-> TRUE, v |-> 0]
Num(n) == [nan |-> FALSE, v |-> n]

\* a % b on integers: the result takes the sign of the dividend (b > 0)
JsRem(a, b) == IF a >= 0 THEN a % b ELSE 0 - ((0 - a) % b)

Add(x, k) == IF x.nan THEN NaN ELSE Num(x.v + k)
Rem(x, len) == IF x.nan \/ len = 0 THEN NaN ELSE Num(JsRem(x.v, len))

\* --------------------------------------------------------------- strings
Null == << >>
NoPhoto == << "<span class=no-photo>" >>
Truthy(s) == s # << >>
NoTimer == 0 - 1

KeyOf(m, y) == << monthNames[m + 1], ToString(y) >>
LabelOf(m, y) == << monthNames[m + 1], " ", ToString(y) >>
FileOf(key) == << "photos/" >> \o key \o << ".jpeg" >>

\* ------------------------------------------------- months construction loop
\* a loop body that gives every month a file, whatever the table says
PushMonthAlways(acc, var, m, y, avail) ==
  Append(acc, [label |-> LabelOf(m, y), file |-> FileOf(KeyOf(m, y))])

\* one iteration of the inner loop's body
PushMonth(acc, var, m, y, avail) ==
  LET key == KeyOf(m, y) IN
  IF var = "script"
    THEN Append(acc, [label |-> LabelOf(m, y),
                      file  |-> IF key \in avail THEN FileOf(key) ELSE Null])
    ELSE IF key \in avail
           THEN Append(acc, [label |-> LabelOf(m, y), file |-> FileOf(key)])
           ELSE acc

RECURSIVE MonthLoop(_, _, _, _, _, _)
\* for (let m = mStart; m <= mEnd; m++)
MonthLoop(acc, var, m, mEnd, y, avail) ==
  IF m > mEnd THEN acc
  ELSE MonthLoop(PushMonth(acc, var, m, y, avail), var, m + 1, mEnd, y, avail)

RECURSIVE YearLoop(_, _, _, _, _, _, _, _)
\* for (let y = startYear; y <= endYear; y++)
YearLoop(acc, var, y, sy, sm, ey, em, avail) ==
  IF y > ey THEN acc
  ELSE LET mStart == IF y = sy THEN sm ELSE 0
           mEnd   == IF y = ey THEN em ELSE LastMonthOfYear
       IN YearLoop(MonthLoop(acc, var, mStart, mEnd, y, avail),
                   var, y + 1, sy, sm, ey, em, avail)

BuildMonths(var, sy, sm, ey, em, avail) ==
  YearLoop(<< >>, var, sy, sy, sm, ey, em, avail)

\* --------------------------------------------------- initial position
\* a scan from the front: the first item with a file, not the last
FirstAvailableScan(ms, i, cur) ==
  LET S == {j \in 0 .. i : Truthy(ms[j + 1].file)} IN
  IF S = {} THEN cur ELSE Num(CHOOSE j \in S : \A k \in S : j <= k)

RECURSIVE LastAvailableScan(_, _, _)
\* for (let i = months.length - 1; i >= 0; i--) if (months[i].file) {...; break}
LastAvailableScan(ms, i, cur) ==
  IF i < 0 THEN cur
  ELSE IF Truthy(ms[i + 1].file) THEN Num(i)
  ELSE LastAvailableScan(ms, i - 1, cur)

\* the value of currentIndex when showMonth(currentIndex) is first called
InitialIndex(var, ms) ==
  IF var = "script"
    THEN LastAvailableScan(ms, Len(ms) - 1, Num(0))
    ELSE Num(Len(ms) - 1)

\* ------------------------------------------------------ click handlers
\* prev without "+ months.length": the remainder of -1 is -1
PrevIndexNoWrap(cur, len) == Rem(Add(cur, 0 - 1), len)
\* prev that stops at the first item
PrevIndexStop(cur, len) == IF ~cur.nan /\ cur.v = 0 THEN cur ELSE Add(cur, 0 - 1)
\* next that stops at the last item
NextIndexStop(cur, len) ==
  IF ~cur.nan /\ cur.v + 1 >= len THEN cur ELSE Add(cur, 1)
\* next without "% months.length"
NextIndexNoMod(cur, len) == Add(cur, 1)

PrevIndex(cur, len) == Rem(Add(Add(cur, 0 - 1), len), len)
NextIndex(cur, len) == Rem(Add(cur, 1), len)

\* months[i] is an item (otherwise undefined, and item.label throws)
Defined(i, ms) == ~i.nan /\ i.v \in 0 .. Len(ms) - 1

\* function showMonth(i)
showMonth(i) ==
  /\ currentIndex' = i
  /\ lastArg' = i
  /\ IF Defined(i, months')
       THEN LET item == months'[i.v + 1] IN
            /\ galleryMonth' = item.label
            /\ galleryImage' = IF variant = "script" /\ ~Truthy(item.file)
                                 THEN NoPhoto ELSE item.file
            /\ thrown' = "none"
       ELSE /\ UNCHANGED << galleryMonth, galleryImage >>
            /\ thrown' = "TypeError"

\* ------------------------------------------------------------ hero timer
\* the hero advance without "% heroPhotos.length"
HeroNextNoMod(h) == h + 1
\* an interval measured from the end of the fade instead of its start
NextIntervalDueAfterFade(due) == due + IntervalMs + FadeMs

HeroNext(h) == JsRem(h + 1, Len(heroPhotos))
\* setInterval fires every IntervalMs after its previous firing.  Timers
\* fire exactly when due: the browser's delays and throttling are not modelled.
NextIntervalDue(due) == due + IntervalMs
\* setTimeout(..., 1500) called at time t
TimeoutDue(t) == t + FadeMs

\* ------------------------------------------------------------------ Init
\* number of months of the range; 0 or less when the range is empty
Span(sy, sm, ey, em) == (ey - sy) * 12 + em - sm + 1

RECURSIVE KeysFrom(_, _, _)
\* the keys of the n months starting at month m of year y
KeysFrom(m, y, n) ==
  IF n = 0 THEN {}
  ELSE {KeyOf(m, y)} \cup
       (IF m = LastMonthOfYear THEN KeysFrom(0, y + 1, n - 1)
                                ELSE KeysFrom(m + 1, y, n - 1))

\* The page before DOMContentLoaded.  The date range and the availability
\* table are the data source: the shipped values (September 2024 to December
\* 2025, eleven photos) are one point of the ranges and tables drawn here,
\* which include the empty range and the empty table.
Init ==
  /\ variant \in {"script", "part"}
  /\ startYear = BaseYear
  /\ startMonth \in StartMonths
  /\ endYear \in {BaseYear, BaseYear + 1}
  /\ endMonth \in 0 .. LastMonthOfYear
  /\ Span(startYear, startMonth, endYear, endMonth) \in 0 .. MaxSpan
  /\ photosAvailable \in SUBSET KeysFrom(startMonth, startYear, MaxSpan)
  /\ loaded = FALSE
  /\ months = << >>
  /\ currentIndex = Num(0)
  /\ galleryMonth = << >>
  /\ galleryImage = << >>
  /\ thrown = "none"
  /\ heroIndex = 0
  /\ heroClass = "none"
  /\ now = 0
  /\ intervalDue = NoTimer
  /\ timeouts = {}
  /\ beginLog = << >>
  /\ commitLog = << >>
  /\ lastOp = "none"
  /\ prevOp = "none"
  /\ from1 = Num(0)
  /\ from2 = Num(0)
  /\ lastArg = Num(0)
  /\ fwdRun = 0
  /\ runStart = Num(0)

\* --------------------------------------------------------------- actions
\* document.addEventListener('DOMContentLoaded', ...): the whole handler
DOMContentLoaded ==
  /\ ~loaded
  /\ loaded' = TRUE
  /\ IF variant = "part"
       THEN /\ \E r \in 0 .. Len(heroPhotos) - 1 : heroIndex' = r
            /\ heroClass' = "fade-in"
            /\ intervalDue' = now + IntervalMs
       ELSE UNCHANGED << heroIndex, heroClass, intervalDue >>
  /\ months' = BuildMonths(variant, startYear, startMonth, endYear, endMonth,
                           photosAvailable)
  \* cur: currentIndex as assigned just before the call showMonth(currentIndex)
  /\ LET cur == InitialIndex(variant, months') IN
     /\ showMonth(cur)
     /\ from1' = cur
     /\ from2' = cur
     /\ runStart' = cur
  /\ lastOp' = "init"
  /\ prevOp' = "none"
  /\ fwdRun' = 0
  /\ UNCHANGED << dataVars, now, timeouts, logVars >>

\* galleryPrev click listener
GalleryPrev ==
  /\ loaded
  /\ months' = months
  /\ showMonth(PrevIndex(currentIndex, Len(months)))
  /\ lastOp' = "prev"
  /\ prevOp' = lastOp
  /\ from1' = currentIndex
  /\ from2' = from1
  /\ fwdRun' = 0
  /\ runStart' = currentIndex'
  /\ UNCHANGED << dataVars, loaded, heroVars, timerVars, logVars >>

\* galleryNext click listener
GalleryNext ==
  /\ loaded
  /\ months' = months
  /\ showMonth(NextIndex(currentIndex, Len(months)))
  /\ lastOp' = "next"
  /\ prevOp' = lastOp
  /\ from1' = currentIndex
  /\ from2' = from1
  /\ IF fwdRun >= Len(months)
       THEN fwdRun' = 1 /\ runStart' = currentIndex
       ELSE fwdRun' = fwdRun + 1 /\ runStart' = runStart
  /\ UNCHANGED << dataVars, loaded, heroVars, timerVars, logVars >>

\* the setInterval callback: fade the current background out
HeroInterval ==
  /\ intervalDue # NoTimer
  /\ \A t \in timeouts : intervalDue < t
  /\ Len(beginLog) < MaxCycles
  /\ now' = intervalDue
  /\ heroClass' = "fade-out"
  /\ timeouts' = timeouts \cup {TimeoutDue(now')}
  /\ intervalDue' = NextIntervalDue(intervalDue)
  /\ beginLog' = Append(beginLog, [t |-> now', idx |-> heroIndex])
  /\ UNCHANGED << dataVars, loaded, galleryVars, heroIndex, commitLog, histVars >>

\* the setTimeout callback: advance the background and fade it in
HeroTimeout ==
  /\ \E t \in timeouts :
       /\ \A u \in timeouts : t <= u
       /\ intervalDue # NoTimer => t <= intervalDue
       /\ now' = t
       /\ timeouts' = timeouts \ {t}
  /\ heroIndex' = HeroNext(heroIndex)
  /\ heroClass' = "fade-in"
  /\ commitLog' = Append(commitLog, [t |-> now', idx |-> heroIndex'])
  /\ UNCHANGED << dataVars, loaded, galleryVars, intervalDue, beginLog, histVars >>

Next ==
  \/ DOMContentLoaded
  \/ GalleryPrev
  \/ GalleryNext
  \/ HeroInterval
  \/ HeroTimeout

Spec == Init /\ [][Next]_vars

\* ======================================================================
\* Properties
\* ======================================================================
NotSpace(c) == c # " "
\* a label with its whitespace removed
StripWs(label) == SelectSeq(label, NotSpace)

SetMax(S) == CHOOSE x \in S : \A y \in S : y <= x

\* C1: after construction on a non-empty item sequence and any sequence of
\* prev/next clicks, currentIndex is an integer in [0, length), so the
\* current item is defined.
C1_IndexInRange ==
  (loaded /\ Len(months) >= 1) =>
    /\ ~currentIndex.nan
    /\ currentIndex.v >= 0
    /\ currentIndex.v < Len(months)
    /\ thrown = "none"

\* a prev click at index 0 of a sequence of two or more items has wrapped
C1_Witness ==
  /\ loaded /\ Len(months) >= 2
  /\ lastOp = "prev" /\ from1 = Num(0)
  /\ currentIndex = Num(Len(months) - 1)

\* C2: a next click sets currentIndex to (currentIndex + 1 + length) mod
\* length and a prev click to (currentIndex - 1 + length) mod length:
\* forward from length-1 yields 0, backward from 0 yields length-1, and any
\* other click moves the index by exactly one.
C2_AdvanceFormula ==
  (loaded /\ Len(months) >= 1 /\ lastOp \in {"next", "prev"}) =>
    LET len == Len(months)
        delta == IF lastOp = "next" THEN 1 ELSE 0 - 1
    IN /\ ~from1.nan /\ ~currentIndex.nan
       /\ currentIndex.v = (from1.v + delta + len) % len
       /\ (lastOp = "next" /\ from1.v = len - 1) => currentIndex.v = 0
       /\ (lastOp = "prev" /\ from1.v = 0) => currentIndex.v = len - 1
       /\ (lastOp = "next" /\ from1.v < len - 1) => currentIndex.v = from1.v + 1
       /\ (lastOp = "prev" /\ from1.v > 0) => currentIndex.v = from1.v - 1

\* a next click at the last index of a sequence of two or more items
C2_Witness ==
  /\ loaded /\ Len(months) >= 2
  /\ lastOp = "next" /\ from1 = Num(Len(months) - 1)
  /\ currentIndex = Num(0)

C5_InitialIndex ==
  (loaded /\ lastOp = "init" /\ Len(months) >= 1) =>
    IF variant = "part"
      THEN currentIndex = Num(Len(months) - 1)
      ELSE LET S == {i \in 1 .. Len(months) : months[i].file # Null} IN
           currentIndex = Num(IF S = {} THEN 0 ELSE SetMax(S) - 1)

\* LAST_AVAILABLE skipped a last item without a file
C5_Witness ==
  /\ loaded /\ lastOp = "init" /\ variant = "script"
  /\ Len(months) >= 2
  /\ months[Len(months)].file = Null
  /\ months[Len(months) - 1].file # Null
  /\ currentIndex = Num(Len(months) - 2)

\* C6: with the interval of 8000 ms and the fade of 1500 ms, the k-th
\* fade-out begins at 8000*k ms after registration (the first at 8000), its
\* fade-in follows 1500 ms later (the first at 9500) with the index already
\* advanced by one with wraparound, and fade-outs and fade-ins alternate.
C6_TimerCadence ==
  /\ \A k \in 1 .. Len(beginLog) : beginLog[k].t = 8000 * k
  /\ Len(commitLog) \in {Len(beginLog), Len(beginLog) - 1}
  /\ \A k \in 1 .. Len(commitLog) :
       /\ commitLog[k].t = beginLog[k].t + 1500
       /\ commitLog[k].idx = (beginLog[k].idx + 1) % Len(heroPhotos)
  /\ Len(commitLog) >= 1 => commitLog[1].t = 9500
  /\ (loaded /\ variant = "part") =>
       /\ heroClass = (IF Len(commitLog) < Len(beginLog)
                         THEN "fade-out" ELSE "fade-in")
       /\ heroIndex \in 0 .. Len(heroPhotos) - 1
       /\ Len(commitLog) >= 1 => heroIndex = commitLog[Len(commitLog)].idx

\* two full cycles have run, the second wrapping to the first photo
C6_Witness ==
  /\ Len(commitLog) >= 2
  /\ commitLog[2].t = 17500
  /\ commitLog[2].idx = 0

\* C7 as stated: clicks leave the timers alone, and a timer commit advances
\* the gallery's currentIndex forward from where the last click left it.
C7_TimerAdvancesCurrentIndex ==
  [][ /\ (lastOp' \in {"prev", "next"} /\ histVars' # histVars) =>
           UNCHANGED timerVars
      /\ (commitLog' # commitLog /\ Len(months) >= 1 /\ ~currentIndex.nan) =>
           currentIndex' = Num((currentIndex.v + 1) % Len(months)) ]_vars

\* C7 amended: clicks leave the timers and the hero position alone, and a
\* timer event leaves the gallery alone: a commit advances heroIndex, not
\* currentIndex; the two navigation sources share no state.
C7_IndependentSources ==
  [][ /\ (GalleryPrev \/ GalleryNext) =>
           UNCHANGED << timerVars, heroVars, logVars >>
      /\ commitLog' # commitLog =>
           /\ heroIndex' = (heroIndex + 1) % Len(heroPhotos)
           /\ UNCHANGED galleryVars
      /\ beginLog' # beginLog =>
           UNCHANGED << galleryVars, heroIndex >> ]_vars

\* a click has moved the gallery while a fade-out was pending, after an
\* earlier commit
C7_Witness ==
  /\ loaded /\ Len(months) >= 2
  /\ Len(commitLog) >= 1 /\ timeouts # {}
  /\ lastOp = "next" /\ prevOp = "next"
  /\ heroClass = "fade-out"

\* C8: an item's file is absent exactly when its key (the label with
\* whitespace removed) is not in the available set, at construction and
\* after any navigation, which never changes the item sequence.
C8_FileIffAvailable ==
  /\ [](loaded =>
          \A i \in 1 .. Len(months) :
            (months[i].file = Null) <=>
              (StripWs(months[i].label) \notin photosAvailable))
  /\ [][loaded => (months' = months /\ photosAvailable' = photosAvailable)]_vars

\* after navigation, a sequence with both an item without a file and an
\* item with one
C8_Witness ==
  /\ loaded /\ lastOp = "next" /\ prevOp = "prev"
  /\ \E i \in 1 .. Len(months) : months[i].file = Null
  /\ \E i \in 1 .. Len(months) : months[i].file # Null

\* C9: length next clicks in a row return currentIndex to the index the
\* run started at.
C9_ForwardClosure ==
  (loaded /\ Len(months) >= 1 /\ fwdRun = Len(months)) =>
    currentIndex = runStart

\* a run of three or more that started in the middle of the sequence
C9_Witness ==
  /\ loaded /\ Len(months) >= 3
  /\ fwdRun = Len(months)
  /\ runStart = Num(1)
  /\ currentIndex = Num(1)

\* C10: next then prev, and prev then next, restore the current item, at
\* index 0, at index length-1 and when length = 1.
C10_Inverse ==
  (/\ loaded /\ Len(months) >= 1
   /\ \/ (prevOp = "next" /\ lastOp = "prev")
      \/ (prevOp = "prev" /\ lastOp = "next")) =>
    /\ currentIndex = from2
    /\ Defined(currentIndex, months)
    /\ months[currentIndex.v + 1] = months[from2.v + 1]

\* next at the last index (wrapping to 0) followed by prev
C10_Witness ==
  /\ loaded /\ Len(months) >= 2
  /\ prevOp = "next" /\ lastOp = "prev"
  /\ from2 = Num(Len(months) - 1)
  /\ from1 = Num(0)
  /\ currentIndex = Num(Len(months) - 1)

====
